---------------------------- MODULE Spec2Model ----------------------------
(***************************************************************************)
(* Model of src/main.py: the FNV-1 hash, the Huffman compressor, the toy   *)
(* RSA signer and the menu-driven SistemaMensajesSeguros that chains them. *)
(*                                                                         *)
(* Python integers are unbounded, and a 32-bit hash does not fit the       *)
(* integers of the model checker, so an integer of the program that can    *)
(* exceed 2^31 is a "Num": the sequence of its hexadecimal digits, least   *)
(* significant first, without high zero digits (0 is the empty sequence).  *)
(* Strings are sequences of code points; bytes are sequences of 0..255;    *)
(* bit strings are sequences of the characters "0" and "1".                *)
(***************************************************************************)
EXTENDS Integers, Sequences, FiniteSets, TLC

VARIABLES
    \* FNV1Hash.hash in progress
    fnv_self, fnv_pc, fnv_in, fnv_data, fnv_i, hash_value,
    \* HuffmanCompressor used on its own
    huf_pc, huf_texto, huf_datos, huf_codigos, huf_salida,
    \* RSA used on its own
    rsa_pc, rsa_p, rsa_q, rsa_phi, rsa_e, rsa_n, rsa_publica, rsa_privada,
    rsa_h, rsa_firma, rsa_hv, rsa_valida,
    \* SistemaMensajesSeguros
    mensaje_original, hash_mensaje, mensaje_comprimido, codigos_huffman,
    firma_digital, clave_publica, mensaje_recibido, firma_recibida,
    clave_publica_recibida, codigos_huffman_recibidos, verificacion_final,
    mensaje_verificado, sis_rsa_publica, sis_rsa_privada,
    \* history of the menu session
    progreso, ingresos, ultimo

fnvVars == <<fnv_self, fnv_pc, fnv_in, fnv_data, fnv_i, hash_value>>
hufVars == <<huf_pc, huf_texto, huf_datos, huf_codigos, huf_salida>>
rsaVars == <<rsa_pc, rsa_p, rsa_q, rsa_phi, rsa_e, rsa_n, rsa_publica,
             rsa_privada, rsa_h, rsa_firma, rsa_hv, rsa_valida>>
sisVars == <<mensaje_original, hash_mensaje, mensaje_comprimido,
             codigos_huffman, firma_digital, clave_publica, mensaje_recibido,
             firma_recibida, clave_publica_recibida,
             codigos_huffman_recibidos, verificacion_final,
             mensaje_verificado, sis_rsa_publica, sis_rsa_privada,
             progreso, ingresos, ultimo>>
vars == <<fnvVars, hufVars, rsaVars, sisVars>>

\* An optional value is a sequence of at most one element: None (or an
\* attribute that was never assigned) is the empty sequence.
None == <<>>
Some(v) == <<v>>

-----------------------------------------------------------------------------
(* Bounds of the model *)

\* longest text given to the Huffman compressor
MaxLen == 5
\* longest byte sequence / string given to FNV1Hash.hash
MaxData == 3
\* longest message typed into the menu
MaxMsgLen == 2
\* number of times a message is entered in one menu session
MaxIngresos == 2
\* largest numeric hash value handed to RSA.firmar_hash / verificar_firma
MaxHash == 40
\* primes up to MaxPrime are tried as p and q (next to 53, 61 and 103)
MaxPrime == 10

\* code points of the characters used in texts: A, B, C and e-acute
Alfabeto == {65, 66, 67, 233}
\* code points of the characters typed into the menu: A and B
AlfabetoMenu == {65, 66}
\* byte values used in raw byte inputs
Bytes == {0, 1, 65, 128, 255}

RECURSIVE SeqsUpTo(_, _)
SeqsUpTo(S, n) ==
    IF n = 0 THEN {<<>>}
    ELSE LET shorter == SeqsUpTo(S, n - 1)
         IN  shorter \cup {Append(s, x) : s \in shorter, x \in S}

-----------------------------------------------------------------------------
(* Unbounded integers as digit sequences *)

RECURSIVE Norm(_)
Norm(a) ==
    IF a = <<>> THEN <<>>
    ELSE IF a[Len(a)] = 0 THEN Norm(SubSeq(a, 1, Len(a) - 1))
    ELSE a

RECURSIVE IntToNum(_)
IntToNum(v) == IF v = 0 THEN <<>> ELSE <<v % 16>> \o IntToNum(v \div 16)

Digit(a, i) == IF i <= Len(a) THEN a[i] ELSE 0

RECURSIVE MulSmall(_, _, _)
MulSmall(a, d, c) ==
    IF a = <<>>
    THEN IF c = 0 THEN <<>> ELSE <<c % 16>> \o MulSmall(<<>>, d, c \div 16)
    ELSE LET v == Head(a) * d + c
         IN  <<v % 16>> \o MulSmall(Tail(a), d, v \div 16)

RECURSIVE AddNum(_, _, _)
AddNum(a, b, c) ==
    IF a = <<>> /\ b = <<>>
    THEN IF c = 0 THEN <<>> ELSE <<c>>
    ELSE LET v == Digit(a, 1) + Digit(b, 1) + c
             ra == IF a = <<>> THEN <<>> ELSE Tail(a)
             rb == IF b = <<>> THEN <<>> ELSE Tail(b)
         IN  <<v % 16>> \o AddNum(ra, rb, v \div 16)

\* a * b on Python integers
RECURSIVE MulNum(_, _)
MulNum(a, b) ==
    IF b = <<>> THEN <<>>
    ELSE Norm(AddNum(MulSmall(a, Head(b), 0), <<0>> \o MulNum(a, Tail(b)), 0))

RECURSIVE AndBits(_, _)
AndBits(x, y) ==
    IF x = 0 \/ y = 0 THEN 0
    ELSE (x % 2) * (y % 2) + 2 * AndBits(x \div 2, y \div 2)

RECURSIVE XorBits(_, _)
XorBits(x, y) ==
    IF x = 0 /\ y = 0 THEN 0
    ELSE (((x % 2) + (y % 2)) % 2) + 2 * XorBits(x \div 2, y \div 2)

\* a & m on Python integers
AndNum(a, m) == Norm([i \in 1..Len(m) |-> AndBits(Digit(a, i), m[i])])

\* a ^ b on Python integers
XorNum(a, b) ==
    LET n == IF Len(a) >= Len(b) THEN Len(a) ELSE Len(b)
    IN  Norm([i \in 1..n |-> XorBits(Digit(a, i), Digit(b, i))])

\* a % n for an unbounded a and a small n (Horner, most significant first)
RECURSIVE ModNum(_, _)
ModNum(a, n) ==
    IF a = <<>> THEN 0
    ELSE (ModNum(Tail(a), n) * 16 + Head(a)) % n

-----------------------------------------------------------------------------
(* str.encode('utf-8'), format(x, 'x'), int(s, 16) *)

Utf8Char(c) ==
    IF c < 128 THEN <<c>>
    ELSE IF c < 2048 THEN <<192 + (c \div 64), 128 + (c % 64)>>
    ELSE <<224 + (c \div 4096), 128 + ((c \div 64) % 64), 128 + (c % 64)>>

RECURSIVE EncodeUtf8(_)
EncodeUtf8(s) ==
    IF s = <<>> THEN <<>> ELSE Utf8Char(Head(s)) \o EncodeUtf8(Tail(s))

HexChars == <<"0", "1", "2", "3", "4", "5", "6", "7",
              "8", "9", "a", "b", "c", "d", "e", "f">>

\* format(x, 'x'): lowercase, most significant digit first, "0" for zero
FormatHex(x) ==
    IF x = <<>> THEN <<"0">>
    ELSE [i \in 1..Len(x) |-> HexChars[x[Len(x) + 1 - i] + 1]]

HexVal(ch) == (CHOOSE k \in 1..16 : HexChars[k] = ch) - 1

\* int(s, 16)
ParseHex(s) == Norm([i \in 1..Len(s) |-> HexVal(s[Len(s) + 1 - i])])

-----------------------------------------------------------------------------
(* FNV1Hash *)

\* FNV1Hash.__init__(bits) for the two widths it accepts
\* 32: 16777619 = 0x01000193, 2166136261 = 0x811C9DC5, 0xFFFFFFFF
\* 64: 1099511628211 = 0x100000001B3,
\*     14695981039346656037 = 0xCBF29CE484222325, 0xFFFFFFFFFFFFFFFF
FNV1Hash(bits) ==
    IF bits = 32
    THEN [bits |-> 32,
          FNV_prime |-> <<3, 9, 1, 0, 0, 0, 1>>,
          FNV_offset_basis |-> <<5, 12, 13, 9, 12, 1, 1, 8>>,
          mask |-> [i \in 1..8 |-> 15]]
    ELSE [bits |-> 64,
          FNV_prime |-> <<3, 11, 1, 0, 0, 0, 0, 0, 0, 0, 1>>,
          FNV_offset_basis |-> <<5, 2, 3, 2, 2, 2, 4, 8,
                                 4, 14, 12, 9, 2, 15, 11, 12>>,
          mask |-> [i \in 1..16 |-> 15]]

\* one turn of the loop of FNV1Hash.hash
\* (HashPasoXorPrimero is FNV-1a: the xor before the multiplication)
HashPasoXorPrimero(self, h, byte) ==
    AndNum(MulNum(XorNum(h, IntToNum(byte)), self.FNV_prime), self.mask)

HashPaso(self, h, byte) ==
    XorNum(AndNum(MulNum(h, self.FNV_prime), self.mask), IntToNum(byte))

RECURSIVE HashDesde(_, _, _)
HashDesde(self, h, data) ==
    IF data = <<>> THEN h
    ELSE HashDesde(self, HashPaso(self, h, Head(data)), Tail(data))

\* self.fnv.hash on a str, self.fnv = FNV1Hash() with the default bits = 32
FnvHashStr(texto) ==
    HashDesde(FNV1Hash(32), FNV1Hash(32).FNV_offset_basis, EncodeUtf8(texto))

\* FNV1Hash.hash_hex on a str
FnvHashHex(texto) == FormatHex(FnvHashStr(texto))

-----------------------------------------------------------------------------
(* HuffmanCompressor *)

\* A dict is the sequence of its <<key, value>> items in insertion order.
DictHas(d, k) == \E i \in 1..Len(d) : d[i][1] = k
DictGet(d, k) == d[CHOOSE i \in 1..Len(d) : d[i][1] = k][2]
DictSet(d, k, v) ==
    IF DictHas(d, k)
    THEN [i \in 1..Len(d) |-> IF d[i][1] = k THEN <<k, v>> ELSE d[i]]
    ELSE Append(d, <<k, v>>)

\* Counter(texto): symbols in order of first occurrence, with their counts
Counter(texto) ==
    LET F[i \in 0..Len(texto)] ==
            IF i = 0 THEN <<>>
            ELSE IF DictHas(F[i - 1], texto[i])
                 THEN DictSet(F[i - 1], texto[i], DictGet(F[i - 1], texto[i]) + 1)
                 ELSE DictSet(F[i - 1], texto[i], 1)
    IN  F[Len(texto)]

NodoHuffman(simbolo, frecuencia) ==
    [simbolo |-> simbolo, frecuencia |-> frecuencia,
     izquierda |-> None, derecha |-> None]

\* NodoHuffman.__lt__
\* (LtMayorPrimero compares the other way round)
LtMayorPrimero(a, otro) == a.frecuencia > otro.frecuencia

Lt(a, otro) == a.frecuencia < otro.frecuencia

\* heapq: positions are counted from 0 as in Python, heap[pos] is heap[pos + 1]
RECURSIVE SiftDownLoop(_, _, _, _)
SiftDownLoop(heap, startpos, pos, newitem) ==
    IF pos > startpos
    THEN LET parentpos == (pos - 1) \div 2
             parent == heap[parentpos + 1]
         IN  IF Lt(newitem, parent)
             THEN SiftDownLoop([heap EXCEPT ![pos + 1] = parent],
                               startpos, parentpos, newitem)
             ELSE [heap EXCEPT ![pos + 1] = newitem]
    ELSE [heap EXCEPT ![pos + 1] = newitem]

siftdown(heap, startpos, pos) ==
    SiftDownLoop(heap, startpos, pos, heap[pos + 1])

RECURSIVE SiftUpLoop(_, _, _, _)
SiftUpLoop(heap, startpos, pos, newitem) ==
    LET endpos == Len(heap)
        childpos == 2 * pos + 1
    IN  IF childpos < endpos
        THEN LET rightpos == childpos + 1
                 c == IF rightpos < endpos
                         /\ ~Lt(heap[childpos + 1], heap[rightpos + 1])
                      THEN rightpos ELSE childpos
             IN  SiftUpLoop([heap EXCEPT ![pos + 1] = heap[c + 1]],
                            startpos, c, newitem)
        ELSE SiftDownLoop([heap EXCEPT ![pos + 1] = newitem],
                          startpos, pos, newitem)

siftup(heap, pos) == SiftUpLoop(heap, pos, pos, heap[pos + 1])

heappush(heap, item) ==
    LET h == Append(heap, item) IN siftdown(h, 0, Len(h) - 1)

\* heappop: <<the item returned, the heap afterwards>>
heappop(heap) ==
    LET lastelt == heap[Len(heap)]
        rest == SubSeq(heap, 1, Len(heap) - 1)
    IN  IF rest # <<>>
        THEN <<rest[1], siftup([rest EXCEPT ![1] = lastelt], 0)>>
        ELSE <<lastelt, rest>>

\* the loop that pushes one leaf per symbol
RECURSIVE CrearNodos(_, _)
CrearNodos(heap, frecuencias) ==
    IF frecuencias = <<>> THEN heap
    ELSE CrearNodos(
             heappush(heap, NodoHuffman(Some(frecuencias[1][1]),
                                        frecuencias[1][2])),
             Tail(frecuencias))

\* the loop that joins the two least frequent nodes until one is left
RECURSIVE UnirNodos(_)
UnirNodos(heap) ==
    IF Len(heap) > 1
    THEN LET pop1 == heappop(heap)
             pop2 == heappop(pop1[2])
             nodo1 == pop1[1]
             nodo2 == pop2[1]
             nodo_padre ==
                 [simbolo |-> None,
                  frecuencia |-> nodo1.frecuencia + nodo2.frecuencia,
                  izquierda |-> Some(nodo1), derecha |-> Some(nodo2)]
         IN  UnirNodos(heappush(pop2[2], nodo_padre))
    ELSE heap

\* construir_arbol: the root, or None
construir_arbol(texto) ==
    IF texto = <<>> THEN None
    ELSE LET heap == UnirNodos(CrearNodos(<<>>, Counter(texto)))
         IN  IF heap # <<>> THEN Some(heap[1]) ELSE None

\* generar_codigos(nodo, codigo_actual) adding to the dict codigos
\* (GenerarDesdeMismoBit descends to the right with "0" as well)
RECURSIVE GenerarDesdeMismoBit(_, _, _)
GenerarDesdeMismoBit(nodo, codigo_actual, codigos) ==
    IF nodo.simbolo # None
    THEN DictSet(codigos, nodo.simbolo[1], codigo_actual)
    ELSE LET c1 == IF nodo.izquierda # None
                   THEN GenerarDesdeMismoBit(nodo.izquierda[1],
                                             codigo_actual \o <<"0">>, codigos)
                   ELSE codigos
         IN  IF nodo.derecha # None
             THEN GenerarDesdeMismoBit(nodo.derecha[1],
                                       codigo_actual \o <<"0">>, c1)
             ELSE c1

RECURSIVE GenerarDesde(_, _, _)
GenerarDesde(nodo, codigo_actual, codigos) ==
    IF nodo.simbolo # None
    THEN DictSet(codigos, nodo.simbolo[1], codigo_actual)
    ELSE LET c1 == IF nodo.izquierda # None
                   THEN GenerarDesde(nodo.izquierda[1],
                                     codigo_actual \o <<"0">>, codigos)
                   ELSE codigos
         IN  IF nodo.derecha # None
             THEN GenerarDesde(nodo.derecha[1], codigo_actual \o <<"1">>, c1)
             ELSE c1

\* generar_codigos() on the tree whose root is arbol_raiz[1]
generar_codigos(arbol_raiz) == GenerarDesde(arbol_raiz[1], <<>>, <<>>)

\* the bits of the text: the codes of its characters, concatenated
RECURSIVE TextoABits(_, _)
TextoABits(texto, codigos) ==
    IF texto = <<>> THEN <<>>
    ELSE DictGet(codigos, Head(texto)) \o TextoABits(Tail(texto), codigos)

\* int(byte, 2)
RECURSIVE ParseBin(_)
ParseBin(s) ==
    IF s = <<>> THEN 0
    ELSE 2 * ParseBin(SubSeq(s, 1, Len(s) - 1))
         + (IF s[Len(s)] = "1" THEN 1 ELSE 0)

\* format(byte, '08b')
Format08b(byte) ==
    [k \in 1..8 |->
        IF (byte \div (2 ^ (8 - k))) % 2 = 1 THEN "1" ELSE "0"]

Zeros(n) == [k \in 1..n |-> "0"]

\* the padding comprimir computes for a bit string of length n
\* (PaddingSinNormalizar leaves out "if padding == 8: padding = 0")
PaddingSinNormalizar(n) == 8 - (n % 8)

Padding(n) ==
    LET padding == 8 - (n % 8) IN IF padding = 8 THEN 0 ELSE padding

\* the loop that packs the padded bits into bytes
RECURSIVE Empaquetar(_)
Empaquetar(bits) ==
    IF bits = <<>> THEN <<>>
    ELSE <<ParseBin(SubSeq(bits, 1, IF Len(bits) < 8 THEN Len(bits) ELSE 8))>>
         \o Empaquetar(SubSeq(bits, 9, Len(bits)))

\* comprimir: <<the bytes, the code table>>
comprimir(texto) ==
    IF texto = <<>> THEN <<<<>>, <<>>>>
    ELSE LET codigos == generar_codigos(construir_arbol(texto))
             bits == TextoABits(texto, codigos)
             padding == Padding(Len(bits))
         IN  <<<<padding>> \o Empaquetar(bits \o Zeros(padding)), codigos>>

RECURSIVE BytesABits(_)
BytesABits(datos) ==
    IF datos = <<>> THEN <<>>
    ELSE Format08b(Head(datos)) \o BytesABits(Tail(datos))

\* {v: k for k, v in codigos_huffman.items()}: the last key wins
CodigosInversos(codigos_h) ==
    LET F[i \in 0..Len(codigos_h)] ==
            IF i = 0 THEN <<>>
            ELSE DictSet(F[i - 1], codigos_h[i][2], codigos_h[i][1])
    IN  F[Len(codigos_h)]

\* the decoding loop of descomprimir
RECURSIVE Decodificar(_, _, _, _)
Decodificar(bits, codigos_inversos, codigo_actual, texto_reconstruido) ==
    IF bits = <<>> THEN texto_reconstruido
    ELSE LET actual == Append(codigo_actual, Head(bits))
         IN  IF DictHas(codigos_inversos, actual)
             THEN Decodificar(Tail(bits), codigos_inversos, <<>>,
                      Append(texto_reconstruido,
                             DictGet(codigos_inversos, actual)))
             ELSE Decodificar(Tail(bits), codigos_inversos, actual,
                              texto_reconstruido)

descomprimir(datos_comprimidos, codigos_h) ==
    IF datos_comprimidos = <<>> \/ codigos_h = <<>> THEN <<>>
    ELSE LET padding == datos_comprimidos[1]
             todos == BytesABits(Tail(datos_comprimidos))
             bits == IF padding > 0
                     THEN SubSeq(todos, 1,
                                 IF Len(todos) > padding
                                 THEN Len(todos) - padding ELSE 0)
                     ELSE todos
         IN  Decodificar(bits, CodigosInversos(codigos_h), <<>>, <<>>)

-----------------------------------------------------------------------------
(* RSA *)

RECURSIVE calcular_mcd(_, _)
calcular_mcd(a, b) == IF b # 0 THEN calcular_mcd(b, a % b) ELSE a

\* (son_coprimos_mayor_igual tests >= 1 where the code tests == 1)
son_coprimos_mayor_igual(a, b) == calcular_mcd(a, b) >= 1

son_coprimos(a, b) == calcular_mcd(a, b) = 1

funcion_totiente_euler(p, q) == (p - 1) * (q - 1)

\* extended_gcd(a, b): <<gcd, x, y>>
\* (extended_gcd_resto takes b % a where the code takes b // a)
RECURSIVE extended_gcd_resto(_, _)
extended_gcd_resto(a, b) ==
    IF a = 0 THEN <<b, 0, 1>>
    ELSE LET r == extended_gcd_resto(b % a, a)
         IN  <<r[1], r[3] - (b % a) * r[2], r[2]>>

RECURSIVE extended_gcd(_, _)
extended_gcd(a, b) ==
    IF a = 0 THEN <<b, 0, 1>>
    ELSE LET r == extended_gcd(b % a, a)
         IN  <<r[1], r[3] - (b \div a) * r[2], r[2]>>

\* modular_inverse: the inverse, or None when ValueError is raised
modular_inverse(e, phi) ==
    LET r == extended_gcd(e, phi)
    IN  IF r[1] # 1 THEN None ELSE Some(r[2] % phi)

\* the first value tried for e
PrimerE == 17

\* e += 2
SiguienteE(e) == e + 2

\* the search loop of generar_claves, started at e
RECURSIVE BuscarE(_, _)
BuscarE(e, phi_n) ==
    IF ~son_coprimos(e, phi_n) THEN BuscarE(SiguienteE(e), phi_n) ELSE e

\* generar_claves: <<clave_publica, clave_privada>>
generar_claves(p, q) ==
    LET n == p * q
        e == BuscarE(PrimerE, funcion_totiente_euler(p, q))
        d == modular_inverse(e, funcion_totiente_euler(p, q))[1]
    IN  <<<<e, n>>, <<d, n>>>>

\* pow(base, exp, mod) by squaring, base already reduced below mod
RECURSIVE PowMod(_, _, _)
PowMod(base, exp, mod) ==
    IF exp = 0 THEN 1 % mod
    ELSE LET half == PowMod((base * base) % mod, exp \div 2, mod)
         IN  IF exp % 2 = 1 THEN (base * half) % mod ELSE half

\* A hash value handed to RSA is a str of hexadecimal digits or an int.
HashStr(s) == [tipo |-> "str", val |-> s]
HashInt(v) == [tipo |-> "int", val |-> IntToNum(v)]

\* the conversion both firmar_hash and verificar_firma start with
HashNum(hash_val) ==
    IF hash_val.tipo = "str" THEN ParseHex(hash_val.val)
    ELSE hash_val.val

\* firmar_hash with a private key that is set
firmar_hash(hash_val, privada) ==
    PowMod(ModNum(HashNum(hash_val), privada[2]), privada[1], privada[2])

\* verificar_firma with a public key that is set
\* (verificar_firma_reducida reduces the hash modulo n before comparing)
verificar_firma_reducida(hash_val, firma, publica) ==
    ModNum(HashNum(hash_val), publica[2])
        = PowMod(firma % publica[2], publica[1], publica[2])

verificar_firma(hash_val, firma, publica) ==
    HashNum(hash_val)
        = IntToNum(PowMod(firma % publica[2], publica[1], publica[2]))

IsPrime(n) == n > 1 /\ \A k \in 2..(n - 1) : n % k # 0

\* the primes given to generar_claves: the small ones, the defaults 61 and
\* 53, and 103, for which e = 17 divides phi
Primos == {n \in 2..MaxPrime : IsPrime(n)} \cup {53, 61, 103}

\* the numeric hash values tried with a modulus n
Hashes(n) == (0..MaxHash) \cup {n - 1, n, n + 1}

-----------------------------------------------------------------------------
(* The state before anything is called *)

FnvIdle ==
    /\ fnv_self = FNV1Hash(32)
    /\ fnv_pc = "idle" /\ fnv_in = None /\ fnv_data = <<>>
    /\ fnv_i = 0 /\ hash_value = <<>>

HufIdle ==
    /\ huf_pc = "idle" /\ huf_texto = <<>> /\ huf_datos = None
    /\ huf_codigos = None /\ huf_salida = None

\* RSA.__init__, and nothing returned to the caller yet
RsaIdle ==
    /\ rsa_pc = "idle" /\ rsa_p = 0 /\ rsa_q = 0 /\ rsa_phi = 0 /\ rsa_e = 0
    /\ rsa_n = None /\ rsa_publica = None /\ rsa_privada = None
    /\ rsa_h = None /\ rsa_firma = None /\ rsa_hv = None /\ rsa_valida = None

\* SistemaMensajesSeguros.__init__
SisIdle ==
    /\ mensaje_original = <<>>
    /\ hash_mensaje = None /\ mensaje_comprimido = None
    /\ codigos_huffman = None /\ firma_digital = None /\ clave_publica = None
    /\ mensaje_recibido = None /\ firma_recibida = None
    /\ clave_publica_recibida = None
    /\ codigos_huffman_recibidos = None /\ verificacion_final = None
    /\ mensaje_verificado = None
    /\ sis_rsa_publica = None /\ sis_rsa_privada = None
    /\ progreso = 0 /\ ingresos = 0 /\ ultimo = "inicio"

-----------------------------------------------------------------------------
(* FNV1Hash.hash, one step per turn of its loop *)

FnvEntradas ==
    {[tipo |-> "bytes", val |-> b] : b \in SeqsUpTo(Bytes, MaxData)}
    \cup {[tipo |-> "str", val |-> t] : t \in SeqsUpTo(Alfabeto, MaxData)}

InitFNV ==
    /\ fnv_self \in {FNV1Hash(32), FNV1Hash(64)}
    /\ fnv_pc = "inicio" /\ fnv_in \in {Some(x) : x \in FnvEntradas}
    /\ fnv_data = <<>> /\ fnv_i = 0 /\ hash_value = <<>>
    /\ HufIdle /\ RsaIdle /\ SisIdle

\* encode a str, then hash_value = self.FNV_offset_basis
HashEntrada ==
    /\ fnv_pc = "inicio"
    /\ fnv_data' = IF fnv_in[1].tipo = "str"
                   THEN EncodeUtf8(fnv_in[1].val) ELSE fnv_in[1].val
    /\ hash_value' = fnv_self.FNV_offset_basis
    /\ fnv_i' = 0
    /\ fnv_pc' = "bucle"
    /\ UNCHANGED <<fnv_self, fnv_in, hufVars, rsaVars, sisVars>>

\* for byte in data: multiply, mask, xor
HashBucle ==
    /\ fnv_pc = "bucle"
    /\ fnv_i < Len(fnv_data)
    /\ hash_value' = HashPaso(fnv_self, hash_value, fnv_data[fnv_i + 1])
    /\ fnv_i' = fnv_i + 1
    /\ UNCHANGED <<fnv_self, fnv_pc, fnv_in, fnv_data,
                   hufVars, rsaVars, sisVars>>

\* return hash_value
HashRetorno ==
    /\ fnv_pc = "bucle"
    /\ fnv_i = Len(fnv_data)
    /\ fnv_pc' = "retorno"
    /\ UNCHANGED <<fnv_self, fnv_in, fnv_data, fnv_i, hash_value,
                   hufVars, rsaVars, sisVars>>

NextFNV == HashEntrada \/ HashBucle \/ HashRetorno

SpecFNV == InitFNV /\ [][NextFNV]_vars

-----------------------------------------------------------------------------
(* HuffmanCompressor: comprimir a text, then descomprimir what it returned *)

Textos == SeqsUpTo(Alfabeto, MaxLen)

InitHuffman ==
    /\ huf_pc = "inicio" /\ huf_texto \in Textos /\ huf_datos = None
    /\ huf_codigos = None /\ huf_salida = None
    /\ FnvIdle /\ RsaIdle /\ SisIdle

Comprimir ==
    /\ huf_pc = "inicio"
    /\ huf_datos' = Some(comprimir(huf_texto)[1])
    /\ huf_codigos' = Some(comprimir(huf_texto)[2])
    /\ huf_pc' = "comprimido"
    /\ UNCHANGED <<huf_texto, huf_salida, fnvVars, rsaVars, sisVars>>

Descomprimir ==
    /\ huf_pc = "comprimido"
    /\ huf_salida' = Some(descomprimir(huf_datos[1], huf_codigos[1]))
    /\ huf_pc' = "descomprimido"
    /\ UNCHANGED <<huf_texto, huf_datos, huf_codigos,
                   fnvVars, rsaVars, sisVars>>

NextHuffman == Comprimir \/ Descomprimir

SpecHuffman == InitHuffman /\ [][NextHuffman]_vars

-----------------------------------------------------------------------------
(* RSA: generar_claves one step per turn of its search loop, then           *)
(* firmar_hash and verificar_firma on the keys it left                      *)

InitRSA == RsaIdle /\ FnvIdle /\ HufIdle /\ SisIdle

\* self.n = p * q; phi_n = ...; e = 17
\* (the caller generates keys, signs one hash with them, and verifies the
\* signature against one hash: keys are generated anew before it signs)
GenerarClavesInicio(p, q) ==
    /\ rsa_pc # "buscando"
    /\ rsa_h = None
    /\ rsa_p' = p /\ rsa_q' = q
    /\ rsa_n' = Some(p * q)
    /\ rsa_phi' = funcion_totiente_euler(p, q)
    /\ rsa_e' = PrimerE
    /\ rsa_pc' = "buscando"
    /\ UNCHANGED <<rsa_publica, rsa_privada, rsa_h, rsa_firma, rsa_hv,
                   rsa_valida, fnvVars, hufVars, sisVars>>

\* while not self.son_coprimos(e, phi_n): e += 2
GenerarClavesBuscar ==
    /\ rsa_pc = "buscando"
    /\ ~son_coprimos(rsa_e, rsa_phi)
    /\ rsa_e' = SiguienteE(rsa_e)
    /\ UNCHANGED <<rsa_pc, rsa_p, rsa_q, rsa_phi, rsa_n, rsa_publica,
                   rsa_privada, rsa_h, rsa_firma, rsa_hv, rsa_valida,
                   fnvVars, hufVars, sisVars>>

\* d = self.modular_inverse(e, phi_n), which may raise; set both keys
GenerarClavesFin ==
    /\ rsa_pc = "buscando"
    /\ son_coprimos(rsa_e, rsa_phi)
    /\ LET d == modular_inverse(rsa_e, rsa_phi)
       IN  IF d = None
           THEN /\ rsa_pc' = "error"
                /\ UNCHANGED <<rsa_publica, rsa_privada>>
           ELSE /\ rsa_pc' = "listo"
                /\ rsa_publica' = Some(<<rsa_e, rsa_n[1]>>)
                /\ rsa_privada' = Some(<<d[1], rsa_n[1]>>)
    /\ UNCHANGED <<rsa_p, rsa_q, rsa_phi, rsa_e, rsa_n, rsa_h, rsa_firma,
                   rsa_hv, rsa_valida, fnvVars, hufVars, sisVars>>

\* firmar_hash(h): raises when no private key is set
FirmarHash(h) ==
    /\ rsa_pc # "buscando"
    /\ rsa_h = None
    /\ IF rsa_privada = None
       THEN UNCHANGED <<rsa_h, rsa_firma, rsa_hv, rsa_valida>>
       ELSE /\ rsa_h' = Some(h)
            /\ rsa_firma' = Some(firmar_hash(HashInt(h), rsa_privada[1]))
            /\ UNCHANGED <<rsa_hv, rsa_valida>>
    /\ UNCHANGED <<rsa_pc, rsa_p, rsa_q, rsa_phi, rsa_e, rsa_n, rsa_publica,
                   rsa_privada, fnvVars, hufVars, sisVars>>

\* verificar_firma(h, the signature firmar_hash returned)
VerificarFirma(h) ==
    /\ rsa_pc # "buscando"
    /\ rsa_firma # None
    /\ rsa_hv = None
    /\ IF rsa_publica = None
       THEN UNCHANGED <<rsa_hv, rsa_valida>>
       ELSE /\ rsa_hv' = Some(h)
            /\ rsa_valida' = Some(verificar_firma(HashInt(h), rsa_firma[1],
                                                  rsa_publica[1]))
    /\ UNCHANGED <<rsa_pc, rsa_p, rsa_q, rsa_phi, rsa_e, rsa_n, rsa_publica,
                   rsa_privada, rsa_h, rsa_firma, fnvVars, hufVars, sisVars>>

ModuloActual == IF rsa_publica = None THEN 1 ELSE rsa_publica[1][2]

NextRSA ==
    \/ \E p \in Primos : \E q \in Primos \ {p} : GenerarClavesInicio(p, q)
    \/ GenerarClavesBuscar
    \/ GenerarClavesFin
    \/ \E h \in Hashes(ModuloActual) : FirmarHash(h)
    \/ \E h \in Hashes(ModuloActual) : VerificarFirma(h)

\* generar_claves runs to its end once called: nothing suspends it
SpecRSA ==
    /\ InitRSA /\ [][NextRSA]_vars
    /\ WF_vars(GenerarClavesBuscar) /\ WF_vars(GenerarClavesFin)

-----------------------------------------------------------------------------
(* SistemaMensajesSeguros: one action per menu option *)

\* the defaults of generar_claves, which the menu always uses
DefaultP == 61
DefaultQ == 53

\* truth of an optional str or bytes, and of an optional int
NoVacio(x) == x # None /\ x[1] # <<>>
NoCero(x) == x # None /\ x[1] # 0

Mensajes == SeqsUpTo(AlfabetoMenu, MaxMsgLen)

\* progreso counts the options taken in the order 1, 2, ..., 7 since the
\* last message was entered; an option out of that order resets it to 0
Avanza(k) == progreso' = IF progreso = k - 1 THEN k ELSE 0

InitSistema == SisIdle /\ FnvIdle /\ HufIdle /\ RsaIdle

\* option 1
ingresar_mensaje(m) ==
    /\ ingresos < MaxIngresos
    /\ ingresos' = ingresos + 1
    /\ mensaje_original' = m
    /\ progreso' = 1
    /\ ultimo' = "ingresar"
    /\ UNCHANGED <<hash_mensaje, mensaje_comprimido, codigos_huffman,
                   firma_digital, clave_publica, mensaje_recibido,
                   firma_recibida, clave_publica_recibida,
                   codigos_huffman_recibidos, verificacion_final,
                   mensaje_verificado, sis_rsa_publica, sis_rsa_privada,
                   fnvVars, hufVars, rsaVars>>

\* option 2
calcular_hash ==
    /\ Avanza(2)
    /\ IF mensaje_original = <<>>
       THEN /\ ultimo' = "hash_error"
            /\ UNCHANGED hash_mensaje
       ELSE /\ ultimo' = "hash_ok"
            /\ hash_mensaje' = Some(FnvHashHex(mensaje_original))
    /\ UNCHANGED <<mensaje_original, mensaje_comprimido, codigos_huffman,
                   firma_digital, clave_publica, mensaje_recibido,
                   firma_recibida, clave_publica_recibida,
                   codigos_huffman_recibidos, verificacion_final,
                   mensaje_verificado, sis_rsa_publica, sis_rsa_privada,
                   ingresos, fnvVars, hufVars, rsaVars>>

\* option 3
comprimir_mensaje ==
    /\ Avanza(3)
    /\ IF mensaje_original = <<>>
       THEN /\ ultimo' = "comprimir_error"
            /\ UNCHANGED <<mensaje_comprimido, codigos_huffman>>
       ELSE /\ ultimo' = "comprimir_ok"
            /\ mensaje_comprimido' = Some(comprimir(mensaje_original)[1])
            /\ codigos_huffman' = Some(comprimir(mensaje_original)[2])
    /\ UNCHANGED <<mensaje_original, hash_mensaje, firma_digital,
                   clave_publica, mensaje_recibido, firma_recibida,
                   clave_publica_recibida, codigos_huffman_recibidos,
                   verificacion_final, mensaje_verificado, sis_rsa_publica,
                   sis_rsa_privada, ingresos, fnvVars, hufVars, rsaVars>>

\* option 4
firmar_hash_menu ==
    /\ Avanza(4)
    /\ IF ~NoVacio(hash_mensaje)
       THEN /\ ultimo' = "firmar_error"
            /\ UNCHANGED <<firma_digital, clave_publica, sis_rsa_publica,
                           sis_rsa_privada>>
       ELSE LET claves == generar_claves(DefaultP, DefaultQ)
            IN  /\ ultimo' = "firmar_ok"
                /\ sis_rsa_publica' = Some(claves[1])
                /\ sis_rsa_privada' = Some(claves[2])
                /\ clave_publica' = Some(claves[1])
                /\ firma_digital' =
                       Some(firmar_hash(HashStr(hash_mensaje[1]), claves[2]))
    /\ UNCHANGED <<mensaje_original, hash_mensaje, mensaje_comprimido,
                   codigos_huffman, mensaje_recibido, firma_recibida,
                   clave_publica_recibida, codigos_huffman_recibidos,
                   verificacion_final, mensaje_verificado, ingresos,
                   fnvVars, hufVars, rsaVars>>

\* option 5
simular_envio ==
    /\ Avanza(5)
    /\ IF ~NoVacio(mensaje_comprimido) \/ ~NoCero(firma_digital)
          \/ clave_publica = None
       THEN /\ ultimo' = "envio_error"
            /\ UNCHANGED <<mensaje_recibido, firma_recibida,
                           clave_publica_recibida, codigos_huffman_recibidos>>
       ELSE /\ ultimo' = "envio_ok"
            /\ mensaje_recibido' = mensaje_comprimido
            /\ firma_recibida' = firma_digital
            /\ clave_publica_recibida' = clave_publica
            /\ codigos_huffman_recibidos' = codigos_huffman
    /\ UNCHANGED <<mensaje_original, hash_mensaje, mensaje_comprimido,
                   codigos_huffman, firma_digital, clave_publica,
                   verificacion_final, mensaje_verificado, sis_rsa_publica,
                   sis_rsa_privada, ingresos, fnvVars, hufVars, rsaVars>>

\* option 6
descomprimir_verificar ==
    /\ Avanza(6)
    /\ IF ~NoVacio(mensaje_recibido) \/ ~NoCero(firma_recibida)
          \/ clave_publica_recibida = None
       THEN /\ ultimo' = "verificar_error"
            /\ UNCHANGED <<verificacion_final, mensaje_verificado,
                           sis_rsa_publica>>
       ELSE LET mensaje_descomprimido ==
                    descomprimir(mensaje_recibido[1],
                                 codigos_huffman_recibidos[1])
                hash_recibido == FnvHashHex(mensaje_descomprimido)
            IN  /\ ultimo' = "verificar_ok"
                /\ sis_rsa_publica' = clave_publica_recibida
                /\ verificacion_final' =
                       Some(verificar_firma(HashStr(hash_recibido),
                                            firma_recibida[1],
                                            clave_publica_recibida[1]))
                /\ mensaje_verificado' = Some(mensaje_descomprimido)
    /\ UNCHANGED <<mensaje_original, hash_mensaje, mensaje_comprimido,
                   codigos_huffman, firma_digital, clave_publica,
                   mensaje_recibido, firma_recibida, clave_publica_recibida,
                   codigos_huffman_recibidos, sis_rsa_privada, ingresos,
                   fnvVars, hufVars, rsaVars>>

\* option 7: only prints; ultimo records what it printed
mostrar_autenticidad ==
    /\ Avanza(7)
    /\ ultimo' = IF verificacion_final = None THEN "mostrar_error"
                 ELSE IF verificacion_final[1] THEN "autentico"
                 ELSE "alterado"
    /\ UNCHANGED <<mensaje_original, hash_mensaje, mensaje_comprimido,
                   codigos_huffman, firma_digital, clave_publica,
                   mensaje_recibido, firma_recibida, clave_publica_recibida,
                   codigos_huffman_recibidos, verificacion_final,
                   mensaje_verificado, sis_rsa_publica, sis_rsa_privada,
                   ingresos, fnvVars, hufVars, rsaVars>>

NextSistema ==
    \/ \E m \in Mensajes : ingresar_mensaje(m)
    \/ calcular_hash
    \/ comprimir_mensaje
    \/ firmar_hash_menu
    \/ simular_envio
    \/ descomprimir_verificar
    \/ mostrar_autenticidad

SpecSistema == InitSistema /\ [][NextSistema]_vars

-----------------------------------------------------------------------------
(* Properties *)

IsPrefix(a, b) == Len(a) <= Len(b) /\ SubSeq(b, 1, Len(a)) = a

SimbolosDe(texto) == {texto[i] : i \in 1..Len(texto)}

\* the text "AAAB"
AAAB == <<65, 65, 65, 66>>

\* C1: for every non-empty text, one-symbol texts included, descomprimir of
\* what comprimir returned is the text.
C1_RoundTrip ==
    (huf_pc = "descomprimido" /\ huf_texto # <<>>)
        => huf_salida = Some(huf_texto)

\* C5: the code table has one entry per distinct symbol of the text, and
\* no symbol's code is a prefix of, or equal to, another symbol's code.
C5_PrefixFree ==
    (huf_pc # "inicio" /\ huf_texto # <<>>) =>
        LET codigos == huf_codigos[1]
        IN  /\ Len(codigos) = Cardinality(SimbolosDe(huf_texto))
            /\ {codigos[i][1] : i \in 1..Len(codigos)} = SimbolosDe(huf_texto)
            /\ \A i, j \in 1..Len(codigos) :
                   i # j => ~IsPrefix(codigos[i][2], codigos[j][2])

\* a text of three distinct symbols was compressed to codes of two lengths
C5_Witness ==
    /\ huf_pc = "comprimido"
    /\ Cardinality(SimbolosDe(huf_texto)) = 3
    /\ \E i, j \in 1..Len(huf_codigos[1]) :
           Len(huf_codigos[1][i][2]) < Len(huf_codigos[1][j][2])

\* bit j (from 1, most significant bit of the first payload byte first) of
\* the bytes that follow the header byte
BitDe(datos, j) ==
    (datos[2 + ((j - 1) \div 8)] \div (2 ^ (7 - ((j - 1) % 8)))) % 2

\* C6: the first byte is (8 - L mod 8) mod 8, at most 7; (L + padding) / 8
\* bytes follow; they hold the code bits MSB-first and then zero bits.
C6_Padding ==
    (huf_pc # "inicio" /\ huf_texto # <<>>) =>
        LET datos == huf_datos[1]
            bits == TextoABits(huf_texto, huf_codigos[1])
            L == Len(bits)
            padding == (8 - (L % 8)) % 8
        IN  /\ datos[1] = padding
            /\ datos[1] \in 0..7
            /\ (Len(datos) - 1) * 8 = L + padding
            /\ \A k \in 2..Len(datos) : datos[k] \in 0..255
            /\ \A j \in 1..(L + padding) :
                   BitDe(datos, j)
                       = IF j <= L /\ bits[j] = "1" THEN 1 ELSE 0

\* a text whose codes fill whole bytes (L mod 8 = 0, L > 0) was compressed
C6_Witness ==
    /\ huf_pc = "comprimido"
    /\ Len(TextoABits(huf_texto, huf_codigos[1])) = 8
    /\ huf_datos[1][1] = 0
    /\ Len(huf_datos[1]) = 2

\* C7 as stated: "AAAB" gives the code table A = "0", B = "1".
C7_AAAB_Stated ==
    (huf_pc # "inicio" /\ huf_texto = AAAB) =>
        /\ DictGet(huf_codigos[1], 65) = <<"0">>
        /\ DictGet(huf_codigos[1], 66) = <<"1">>

\* C7 amended: "AAAB" builds a tree with a single internal node, whose left
\* child is the leaf B and whose right child is the leaf A, and gives the
\* code table A = "1", B = "0".
C7_AAAB_Amended ==
    (huf_pc # "inicio" /\ huf_texto = AAAB) =>
        LET raiz == construir_arbol(huf_texto)[1]
        IN  /\ raiz.simbolo = None
            /\ raiz.izquierda[1].simbolo = Some(66)
            /\ raiz.derecha[1].simbolo = Some(65)
            /\ Len(huf_codigos[1]) = 2
            /\ DictGet(huf_codigos[1], 65) = <<"1">>
            /\ DictGet(huf_codigos[1], 66) = <<"0">>

C7_Witness ==
    /\ huf_pc = "comprimido" /\ huf_texto = AAAB
    /\ huf_codigos = Some(<<<<66, <<"0">>>>, <<65, <<"1">>>>>>)

\* A value of 16 * nl bits as its nl 16-bit limbs, least significant first.
Limbs(a, nl) ==
    [k \in 1..nl |->
        Digit(a, 4 * k - 3) + 16 * Digit(a, 4 * k - 2)
        + 256 * Digit(a, 4 * k - 1) + 4096 * Digit(a, 4 * k)]

\* FNV-1 on 16-bit limbs. The prime is 2^24 + 403 for 32 bits and
\* 2^40 + 435 for 64 bits, that is 256 * 65536^sh + c with sh = 1 or 2: so
\* limb k of h * prime is limb k of h * c plus 256 times limb k - sh of h,
\* with carries, and the limbs past the width are dropped; then the byte
\* is xored into the lowest limb.
FoldPaso(bits, h, byte) ==
    LET nl == bits \div 16
        sh == IF bits = 32 THEN 1 ELSE 2
        c == IF bits = 32 THEN 403 ELSE 435
        V[k \in 0..nl] ==
            IF k = 0 THEN 0
            ELSE h[k] * c + (IF k > sh THEN h[k - sh] * 256 ELSE 0)
                 + (V[k - 1] \div 65536)
    IN  [k \in 1..nl |->
            IF k = 1 THEN XorBits(V[1] % 65536, byte) ELSE V[k] % 65536]

\* offset_basis: 0x811C9DC5, 0xCBF29CE484222325
FoldBasis(bits) ==
    IF bits = 32 THEN <<40389, 33052>> ELSE <<8997, 33826, 40164, 52210>>

RECURSIVE Fold(_, _)
Fold(bits, data) ==
    IF data = <<>> THEN FoldBasis(bits)
    ELSE FoldPaso(bits, Fold(bits, SubSeq(data, 1, Len(data) - 1)),
                  data[Len(data)])

\* C8: hash is the left-to-right fold from offset_basis that multiplies by
\* the prime modulo 2^bits and then xors the byte; the empty input gives
\* offset_basis; the value is in 0 .. 2^bits - 1 after every step.
C8_FNV1 ==
    (fnv_pc \in {"bucle", "retorno"}) =>
        /\ Len(hash_value) <= fnv_self.bits \div 4
        /\ \A i \in 1..Len(hash_value) : hash_value[i] \in 0..15
        /\ Limbs(hash_value, fnv_self.bits \div 16)
               = Fold(fnv_self.bits, SubSeq(fnv_data, 1, fnv_i))
        /\ fnv_pc = "retorno" =>
               /\ fnv_i = Len(fnv_data)
               /\ fnv_data = <<>> => hash_value = fnv_self.FNV_offset_basis

\* three raw bytes were hashed with 32 bits and the result returned
C8_Witness ==
    /\ fnv_pc = "retorno" /\ fnv_in[1].tipo = "bytes" /\ fnv_self.bits = 32
    /\ fnv_i = 3 /\ fnv_data = <<255, 128, 65>>

\* the keys generar_claves left are those of the primes it was called with
ClavesDe(p, q) ==
    /\ rsa_publica # None /\ rsa_privada # None
    /\ rsa_publica[1][2] = p * q /\ rsa_privada[1][2] = p * q

\* C2: with the keys of generar_claves(p, q), p and q distinct primes, and
\* a numeric hash h with 0 <= h < n, verificar_firma(h, firmar_hash(h)) is
\* True.
C2_FirmaVerifica ==
    (rsa_valida # None /\ rsa_hv = rsa_h /\ rsa_h[1] < rsa_publica[1][2])
        => rsa_valida[1] = TRUE

\* a hash that shares a factor with n = 15 was signed and verified
C2_Witness ==
    /\ rsa_valida = Some(TRUE) /\ rsa_hv = rsa_h /\ rsa_h = Some(6)
    /\ rsa_p = 3 /\ rsa_q = 5 /\ ClavesDe(3, 5)

\* C3 as stated: for any two distinct numeric hash values h and h', below
\* n or not, verificar_firma(h, firmar_hash(h')) is False.
C3_Tamper_Stated ==
    (rsa_valida # None /\ rsa_hv # rsa_h) => rsa_valida[1] = FALSE

\* C3 amended: verificar_firma(h, firmar_hash(h')) is False whenever
\* h # h' mod n, so for any two distinct hash values below n.
C3_Tamper_Amended ==
    (rsa_valida # None /\ rsa_hv[1] # rsa_h[1] % rsa_publica[1][2])
        => rsa_valida[1] = FALSE

\* two distinct hashes below n = 3233: one signed, the other rejected
C3_Witness ==
    /\ rsa_valida = Some(FALSE) /\ rsa_h = Some(5) /\ rsa_hv = Some(6)
    /\ ClavesDe(61, 53)

\* what C4 says of the keys generar_claves(rsa_p, rsa_q) returned
ClavesCorrectas ==
    LET e == rsa_publica[1][1]
        d == rsa_privada[1][1]
        phi == (rsa_p - 1) * (rsa_q - 1)
    IN  /\ ClavesDe(rsa_p, rsa_q)
        /\ e >= 17 /\ e % 2 = 1
        /\ \A x \in 17..(e - 1) : x % 2 = 1 => calcular_mcd(x, phi) # 1
        /\ calcular_mcd(e, phi) = 1
        /\ 0 <= d /\ d < phi
        /\ (e * d) % phi = 1
        /\ (rsa_p = 61 /\ rsa_q = 53) =>
               /\ rsa_publica = Some(<<17, 3233>>)
               /\ rsa_privada = Some(<<2753, 3233>>)

\* C4: for distinct primes p and q generar_claves ends, raises no error
\* and returns (e, n), (d, n) with n = p * q, e the first of 17, 19, ...
\* coprime with phi, 0 <= d < phi and e * d mod phi = 1; for (61, 53) they
\* are (17, 3233) and (2753, 3233).
C4_GenerarClaves ==
    /\ [](rsa_pc # "error" /\ (rsa_pc = "listo" => ClavesCorrectas))
    /\ (rsa_pc = "buscando") ~> (rsa_pc = "listo")

\* generar_claves(61, 53) returned
C4_Witness ==
    /\ rsa_pc = "listo" /\ rsa_p = 61 /\ rsa_q = 53 /\ rsa_e = 17
    /\ rsa_privada = Some(<<2753, 3233>>)

\* C9: options 1 to 6 taken in order on a non-empty message end with
\* verificacion_final = True and mensaje_verificado = the message.
C9_Autentico ==
    (progreso = 6 /\ mensaje_original # <<>>) =>
        /\ verificacion_final = Some(TRUE)
        /\ mensaje_verificado = Some(mensaje_original)

\* C10: when simular_envio succeeds, what it transmits is the compression
\* of the current mensaje_original and the signature of its hash.
C10_Consistente ==
    (ultimo = "envio_ok") =>
        /\ mensaje_recibido = Some(comprimir(mensaje_original)[1])
        /\ codigos_huffman_recibidos = Some(comprimir(mensaje_original)[2])
        /\ firma_recibida =
               Some(firmar_hash(HashStr(FnvHashHex(mensaje_original)),
                                generar_claves(DefaultP, DefaultQ)[2]))

=============================================================================
